---- MODULE Spec2Model ----
(***************************************************************************)
(* The CME prediction notebook (ccsc_CMEpredict.ipynb) as a state machine. *)
(* The state is the namespace of the notebook kernel (the globals the code *)
(* cells assign) together with the files the cells read and write; the     *)
(* actions are the steps of the three code cells: the prediction loop      *)
(* (2.4.1), the analysis loop (2.4.2) and the training cell (2.5).         *)
(* Probabilities and thresholds are integers in hundredths (0.45 is 45);   *)
(* rates and areas are kept as exact fractions of integer counts.          *)
(***************************************************************************)
EXTENDS Integers, Sequences, FiniteSets, TLC

\* ---------------------------------------------------------------- bounds
MaxN == 4          \* longest batch drawn for the single-configuration pipeline
MaxTrain == 1      \* runs of the training cell in one kernel session

\* ------------------------------------------------- configuration (cell 2.1)
series_len == 20

\* ------------------------------------------------------- the grid (2.4.1)
time_windows == <<12, 36, 60>>
rnn_types == <<"gru", "lstm">>
cm_grid == <<(<<"TN", "FP">>), (<<"FN", "TP">>)>>

\* the options the training cell's comment lists for its two variables
TrainWindows == {12, 24, 36, 48, 60}
TrainTypes == {"lstm", "gru"}

\* itertools.product(a, b): the pairs <<a[i], b[j]>>, the last index fastest
product(a, b) ==
  [k \in 1..(Len(a) * Len(b)) |->
     <<a[((k - 1) \div Len(b)) + 1], b[((k - 1) % Len(b)) + 1]>>]

Grid == product(time_windows, rnn_types)

\* f'CMEpredict/{type}-{time_window}-model.h5'
ModelFile(type, time_window) ==
  "CMEpredict/" \o type \o "-" \o ToString(time_window) \o "-model.h5"

\* model_file of the training cell, the path model.save writes
SavedModelFileNoWindow(type, time_window) ==
  "CMEpredict/" \o type \o "-model.h5"

SavedModelFile(type, time_window) ==
  "CMEpredict/" \o type \o "-" \o ToString(time_window) \o "-model.h5"

\* f'CMEpredict/normalized_testing_{time_window}.csv'
TestDataFile(time_window) ==
  "CMEpredict/normalized_testing_" \o ToString(time_window) \o ".csv"

\* f'{type} {time_window}', the key of the results mapping
ResultKey(type, time_window) == type \o " " \o ToString(time_window)

\* get_n_features_thresh(type, time_window) of the helper module: the count of
\* top features and the threshold (in hundredths) fixed for each pair
get_n_features_thresh(type, time_window) ==
  IF type = "gru"
  THEN CASE time_window = 12 -> <<16, 45>>
         [] time_window = 24 -> <<12, 40>>
         [] time_window = 36 -> <<9, 45>>
         [] time_window = 48 -> <<14, 45>>
         [] OTHER            -> <<5, 50>>
  ELSE CASE time_window = 12 -> <<15, 40>>
         [] time_window = 24 -> <<12, 45>>
         [] time_window = 36 -> <<8, 45>>
         [] time_window = 48 -> <<15, 45>>
         [] OTHER            -> <<6, 50>>

\* ------------------------------------------------------ pure computations
RECURSIVE SumSeq(_)
SumSeq(s) == IF s = <<>> THEN 0 ELSE Head(s) + SumSeq(Tail(s))

RECURSIVE SortDesc(_)
SortDesc(S) ==
  IF S = {} THEN <<>>
  ELSE LET m == CHOOSE x \in S : \A y \in S : y <= x
       IN <<m>> \o SortDesc(S \ {m})

RECURSIVE SortAsc(_)
SortAsc(S) ==
  IF S = {} THEN <<>>
  ELSE LET m == CHOOSE x \in S : \A y \in S : x <= y
       IN <<m>> \o SortAsc(S \ {m})

Range(s) == {s[i] : i \in DOMAIN s}

\* bc = [1 if p >= threshold else 0 for p in prob]
BinarizeOff(prob, threshold) ==
  [i \in DOMAIN prob |-> IF prob[i] > threshold THEN 1 ELSE 0]

Binarize(prob, threshold) ==
  [i \in DOMAIN prob |-> IF prob[i] >= threshold THEN 1 ELSE 0]

\* sklearn.metrics.confusion_matrix(y_true, y_pred) as the notebook calls it,
\* without labels=: the labels are the sorted distinct values that occur in
\* y_true or y_pred, and the matrix has one row and one column per label
cm(y_true, y_pred) ==
  LET labels == SortAsc(Range(y_true) \cup Range(y_pred))
  IN [a \in 1..Len(labels) |-> [b \in 1..Len(labels) |->
        Cardinality({k \in DOMAIN y_true :
                       y_true[k] = labels[a] /\ y_pred[k] = labels[b]})]]

\* confmat[i][j] with Python's 0-based indices; IndexError when out of range
HasCell(confmat, i, j) ==
  /\ i + 1 \in DOMAIN confmat
  /\ j + 1 \in DOMAIN confmat[i + 1]

Cell(confmat, i, j) == confmat[i + 1][j + 1]

\* the loop "for i in range(2): for j in range(2): ... confmat[i][j]" runs
\* through exactly when all four cells exist
PlotCellsOk(confmat) ==
  \A i \in 0..1 : \A j \in 0..1 :
    HasCell(cm_grid, i, j) /\ HasCell(confmat, i, j)

Positives(y_true) == Cardinality({k \in DOMAIN y_true : y_true[k] = 1})
Negatives(y_true) == Cardinality({k \in DOMAIN y_true : y_true[k] = 0})

\* sklearn's _binary_clf_curve: for every distinct score, highest first, the
\* counts of negatives (fp) and positives (tp) scored at least that high
ClfCurve(y_true, y_score) ==
  LET th == SortDesc(Range(y_score))
  IN [k \in 1..Len(th) |->
        [fp |-> Cardinality({i \in DOMAIN y_true :
                               y_score[i] >= th[k] /\ y_true[i] = 0}),
         tp |-> Cardinality({i \in DOMAIN y_true :
                               y_score[i] >= th[k] /\ y_true[i] = 1})]]

\* roc_curve's drop_intermediate: keep the end points and every point where
\* the second difference of fp or of tp is not zero
RECURSIVE KeepIdx(_, _)
KeepIdx(c, k) ==
  IF k > Len(c) THEN <<>>
  ELSE IF \/ k = 1
          \/ k = Len(c)
          \/ c[k + 1].fp - 2 * c[k].fp + c[k - 1].fp # 0
          \/ c[k + 1].tp - 2 * c[k].tp + c[k - 1].tp # 0
       THEN <<c[k]>> \o KeepIdx(c, k + 1)
       ELSE KeepIdx(c, k + 1)

\* roc_curve(y_true, y_score): the curve with the origin put in front; a
\* point [fp, tp] stands for the rates fp / Negatives and tp / Positives
roc_curve(y_true, y_score) ==
  <<[fp |-> 0, tp |-> 0]>> \o KeepIdx(ClfCurve(y_true, y_score), 1)

\* sklearn.metrics.auc by the trapezoidal rule, as the fraction num / den
\* with den = 2 * Negatives * Positives
TrapezoidNum(pts) ==
  SumSeq([k \in 1..(Len(pts) - 1) |->
            (pts[k + 1].fp - pts[k].fp) * (pts[k + 1].tp + pts[k].tp)])

Undefined == [undefined |-> TRUE]

\* roc_auc_score(y_true, y_score): ValueError ("Only one class present in
\* y_true") unless both classes occur; otherwise the area under roc_curve
roc_auc_score(y_true, y_score) ==
  IF Cardinality(Range(y_true)) # 2
  THEN Undefined
  ELSE [num |-> TrapezoidNum(roc_curve(y_true, y_score)),
        den |-> 2 * Negatives(y_true) * Positives(y_true)]


\* ------------------------------------------------------------ the state
\* A persisted or in-memory model: its architecture, the input shape it was
\* built for (len time steps of nf features), gen = 0 for a pre-trained file
\* and k for the k-th model the training cell produced, and w, its weights.
NoModel == [algo |-> "", nf |-> 0, len |-> 0, gen |-> 0, w |-> 0]

\* A sample of a data file: its label and x, its features, kept as the score
\* (in hundredths) a network with weights 0 gives it.
XLevels == {30, 45, 60}
Samples == [label : {0, 1}, x : XLevels]

\* weights a fit may end with: every score moves by that much
FitWeights == {0 - 20, 15}

Clamp(v) == IF v < 0 THEN 0 ELSE IF v > 100 THEN 100 ELSE v

\* model.predict(X_test, ...): one probability per sample, a fixed function
\* of the model's weights and the sample
Score(m, x) == Clamp(x + m.w)

AllPaths == {ModelFile(t, w) : t \in TrainTypes, w \in TrainWindows}
GridPaths == {ModelFile(Grid[k][2], Grid[k][1]) : k \in DOMAIN Grid}
GridWindows == Range(time_windows)
TestFiles == {TestDataFile(w) : w \in GridWindows}

\* the model file the repository ships for a pair
Pretrained(t, w) ==
  [algo |-> t, nf |-> get_n_features_thresh(t, w)[1], len |-> series_len,
   gen |-> 0, w |-> 0]

PathModel(p) ==
  LET c == CHOOSE c \in TrainTypes \X TrainWindows : ModelFile(c[1], c[2]) = p
  IN Pretrained(c[1], c[2])

VARIABLES
  files,        \* model files on disk: path -> model, or NoModel when absent
  testData,     \* testing CSV files: path -> its labelled samples
  pc,           \* where the kernel is: "idle" between cells, else the step
  it,           \* position of the running for loop's iterator
  time_window, type, n_features, threshold, thresh, model_file, model,
  test_data_file, X_test, y_test, prob, bc, confmat,
  results,      \* the dict, in insertion order: <<[key, y_test, bc], ...>>
  name, r_auc, r_roc,
  lines,        \* the lines plt.plot has drawn on the ROC figure of this pass
  error,        \* the exception that ended the last cell, "" if none
  writes,       \* keys stored by results[...] = ... since the cell started
  loaded,       \* model files load_model has read since the cell started
  trained,      \* how many times the training cell has run
  cell          \* the cell run last (or running): "predict", "roc", "train"

env == <<files, testData>>
loopvars == <<time_window, type, n_features, threshold, model_file, model>>
datavars == <<test_data_file, X_test, y_test, prob, bc, confmat>>
rocvars == <<name, r_auc, r_roc, lines>>
vars == <<files, testData, pc, it, time_window, type, n_features, threshold,
          thresh, model_file, model, test_data_file, X_test, y_test, prob, bc,
          confmat,
          results, name, r_auc, r_roc, lines, error, writes, loaded, trained,
          cell>>

\* a Python dict: assignment replaces the value of a key already present in
\* place and appends a new key at the end
DictSet(d, k, y, b) ==
  IF \E i \in DOMAIN d : d[i].key = k
  THEN [i \in DOMAIN d |->
          IF d[i].key = k THEN [key |-> k, y_test |-> y, bc |-> b] ELSE d[i]]
  ELSE Append(d, [key |-> k, y_test |-> y, bc |-> b])

Keys(d) == {d[i].key : i \in DOMAIN d}

\* a fresh kernel after the configuration cells: nothing of the three cells
\* below is bound yet
FreshKernel ==
  /\ pc = "idle" /\ it = 0
  /\ time_window = 0 /\ type = "" /\ n_features = 0 /\ threshold = 0
  /\ thresh = 0 /\ model_file = "" /\ model = NoModel
  /\ test_data_file = "" /\ X_test = [shape |-> <<0, 0>>, x |-> <<>>]
  /\ y_test = <<>> /\ prob = <<>> /\ bc = <<>> /\ confmat = <<>>
  /\ results = <<>>
  /\ name = "" /\ r_auc = Undefined /\ r_roc = <<>> /\ lines = <<>>
  /\ error = "" /\ writes = <<>> /\ loaded = <<>> /\ trained = 0 /\ cell = ""

\* ------------------------------------------- the prediction cell (2.4.1)
\* lines 157-162 without  results = {}
PredictCellKeep ==
  /\ pc = "idle"
  /\ pc' = "for" /\ it' = 1
  /\ error' = "" /\ writes' = <<>> /\ loaded' = <<>>
  /\ cell' = "predict"
  /\ UNCHANGED <<env, loopvars, thresh, datavars, results, rocvars, trained>>

\* lines 157-162: the grid and  results = {}
PredictCell ==
  /\ pc = "idle"
  /\ pc' = "for" /\ it' = 1
  /\ results' = <<>>
  /\ error' = "" /\ writes' = <<>> /\ loaded' = <<>>
  /\ cell' = "predict"
  /\ UNCHANGED <<env, loopvars, thresh, datavars, rocvars, trained>>

\* line 164 when the iterator is exhausted: the cell is done
ForDone ==
  /\ pc = "for" /\ it > Len(Grid)
  /\ pc' = "idle"
  /\ UNCHANGED <<env, it, loopvars, thresh, datavars, results, rocvars,
                 error, writes, loaded, trained, cell>>

\* lines 164-170 without the lookup of line 168: n_features and threshold
\* keep the values they had
LoadModelStale ==
  /\ pc = "for" /\ it <= Len(Grid)
  /\ time_window' = Grid[it][1]
  /\ type' = Grid[it][2]
  /\ model_file' = ModelFile(type', time_window')
  /\ files[model_file'] # NoModel
  /\ model' = files[model_file']
  /\ loaded' = Append(loaded, model_file')
  /\ pc' = "load_data"
  /\ UNCHANGED <<env, it, n_features, threshold, thresh, datavars, results,
                 rocvars, error, writes, trained, cell>>

\* lines 164-170: bind the next pair, name its model file, look its
\* parameters up and load the model
LoadModel ==
  /\ pc = "for" /\ it <= Len(Grid)
  /\ time_window' = Grid[it][1]
  /\ type' = Grid[it][2]
  /\ model_file' = ModelFile(type', time_window')
  /\ n_features' = get_n_features_thresh(type', time_window')[1]
  /\ threshold' = get_n_features_thresh(type', time_window')[2]
  /\ files[model_file'] # NoModel
  /\ model' = files[model_file']
  /\ loaded' = Append(loaded, model_file')
  /\ pc' = "load_data"
  /\ UNCHANGED <<env, it, thresh, datavars, results, rocvars, error, writes,
                 trained, cell>>

\* the same lines when the file is not there: load_model raises
LoadModelFails ==
  /\ pc = "for" /\ it <= Len(Grid)
  /\ time_window' = Grid[it][1]
  /\ type' = Grid[it][2]
  /\ model_file' = ModelFile(type', time_window')
  /\ n_features' = get_n_features_thresh(type', time_window')[1]
  /\ threshold' = get_n_features_thresh(type', time_window')[2]
  /\ files[model_file'] = NoModel
  /\ error' = "OSError" /\ pc' = "idle"
  /\ UNCHANGED <<env, it, thresh, model, datavars, results, rocvars, writes,
                 loaded, trained, cell>>

\* lines 172-179: the test batch of the window, n_features wide
LoadData ==
  /\ pc = "load_data"
  /\ test_data_file' = TestDataFile(time_window)
  /\ LET rows == testData[test_data_file']
     IN /\ X_test' = [shape |-> <<series_len, n_features>>,
                      x |-> [i \in DOMAIN rows |-> rows[i].x]]
        /\ y_test' = [i \in DOMAIN rows |-> rows[i].label]
  /\ pc' = "predict"
  /\ UNCHANGED <<env, it, loopvars, thresh, prob, bc, confmat, results,
                 rocvars, error, writes, loaded, trained, cell>>

\* lines 181-184: one probability per sample
Predict ==
  /\ pc = "predict"
  /\ X_test.shape = <<model.len, model.nf>>
  /\ prob' = [i \in DOMAIN X_test.x |-> Score(model, X_test.x[i])]
  /\ pc' = "classify"
  /\ UNCHANGED <<env, it, loopvars, thresh, test_data_file, X_test, y_test, bc,
                 confmat,
                 results, rocvars, error, writes, loaded, trained, cell>>

\* the same lines when the batch is not of the shape the model was built for
PredictFails ==
  /\ pc = "predict"
  /\ X_test.shape # <<model.len, model.nf>>
  /\ error' = "ValueError: shape" /\ pc' = "idle"
  /\ UNCHANGED <<env, it, loopvars, thresh, datavars, results, rocvars,
                 writes, loaded, trained, cell>>

\* lines 186-188 if the raw probabilities were stored instead of bc
ClassifyRaw ==
  /\ pc = "classify"
  /\ bc' = Binarize(prob, threshold)
  /\ confmat' = cm(y_test, bc')
  /\ results' = DictSet(results, ResultKey(type, time_window), y_test, prob)
  /\ writes' = Append(writes, ResultKey(type, time_window))
  /\ pc' = "plot"
  /\ UNCHANGED <<env, it, loopvars, thresh, test_data_file, X_test, y_test,
                 prob, rocvars, error, loaded, trained, cell>>

\* lines 186-188 if the loop computed the AUROC and the curve of each
\* configuration itself
ClassifyAndScore ==
  /\ pc = "classify"
  /\ bc' = Binarize(prob, threshold)
  /\ confmat' = cm(y_test, bc')
  /\ results' = DictSet(results, ResultKey(type, time_window), y_test, bc')
  /\ writes' = Append(writes, ResultKey(type, time_window))
  /\ lines' = Append(lines, [name |-> ResultKey(type, time_window),
                              auc |-> roc_auc_score(y_test, bc'),
                              roc |-> roc_curve(y_test, bc')])
  /\ pc' = "plot"
  /\ UNCHANGED <<env, it, loopvars, thresh, test_data_file, X_test, y_test,
                 prob, name, r_auc, r_roc, error, loaded, trained, cell>>

\* lines 186-188: binarize, count, store
Classify ==
  /\ pc = "classify"
  /\ bc' = Binarize(prob, threshold)
  /\ confmat' = cm(y_test, bc')
  /\ results' = DictSet(results, ResultKey(type, time_window), y_test, bc')
  /\ writes' = Append(writes, ResultKey(type, time_window))
  /\ pc' = "plot"
  /\ UNCHANGED <<env, it, loopvars, thresh, test_data_file, X_test, y_test,
                 prob, rocvars,
                 error, loaded, trained, cell>>

\* lines 189-200: draw the matrix, write the four cells, show; then the loop
\* goes to its next item
Plot ==
  /\ pc = "plot"
  /\ PlotCellsOk(confmat)
  /\ it' = it + 1 /\ pc' = "for"
  /\ UNCHANGED <<env, loopvars, thresh, datavars, results, rocvars, error,
                 writes, loaded, trained, cell>>

\* the same lines when confmat has no cell [i][j]: IndexError
PlotFails ==
  /\ pc = "plot"
  /\ ~PlotCellsOk(confmat)
  /\ error' = "IndexError" /\ pc' = "idle"
  /\ UNCHANGED <<env, it, loopvars, thresh, datavars, results, rocvars,
                 writes, loaded, trained, cell>>

\* --------------------------------------------- the analysis cell (2.4.2)
\* lines 216-218: a new figure, the iterator over results.items()
AnalysisCell ==
  /\ pc = "idle"
  /\ pc' = "roc" /\ it' = 1
  /\ lines' = <<>> /\ error' = ""
  /\ cell' = "roc"
  /\ UNCHANGED <<env, loopvars, thresh, datavars, results, name, r_auc,
                 r_roc, writes, loaded, trained>>

\* lines 218-221 for one item: the score, the curve, the plotted line
Analyze ==
  /\ pc = "roc" /\ it <= Len(results)
  /\ name' = results[it].key
  /\ y_test' = results[it].y_test
  /\ bc' = results[it].bc
  /\ roc_auc_score(y_test', bc') # Undefined
  /\ r_auc' = roc_auc_score(y_test', bc')
  /\ r_roc' = roc_curve(y_test', bc')
  /\ lines' = Append(lines, [name |-> name', auc |-> r_auc', roc |-> r_roc'])
  /\ it' = it + 1
  /\ UNCHANGED <<env, pc, loopvars, thresh, test_data_file, X_test, prob,
                 confmat, results,
                 error, writes, loaded, trained, cell>>

\* line 219 when roc_auc_score raises: the cell ends there
AnalyzeFails ==
  /\ pc = "roc" /\ it <= Len(results)
  /\ name' = results[it].key
  /\ y_test' = results[it].y_test
  /\ bc' = results[it].bc
  /\ roc_auc_score(y_test', bc') = Undefined
  /\ error' = "ValueError: one class" /\ pc' = "idle"
  /\ UNCHANGED <<env, it, loopvars, thresh, test_data_file, X_test, prob,
                 confmat, results,
                 r_auc, r_roc, lines, writes, loaded, trained, cell>>

\* lines 222-229 once the iterator is exhausted: title, legend, show
AnalysisDone ==
  /\ pc = "roc" /\ it > Len(results)
  /\ pc' = "idle"
  /\ UNCHANGED <<env, it, loopvars, thresh, datavars, results, rocvars,
                 error, writes, loaded, trained, cell>>

\* ------------------------------------------------ the training cell (2.5)
\* lines 247-284 with the two variables set to t and w: look the parameters
\* up, build the network of that type, fit it, save it.  "type is 'lstm'"
\* compares a name bound to a literal of this cell with an equal literal,
\* which CPython keeps as one object, so it holds exactly when they are equal
TrainCell(t, w) ==
  /\ pc = "idle"
  /\ trained < MaxTrain
  /\ time_window' = w
  /\ type' = t
  /\ n_features' = get_n_features_thresh(type', time_window')[1]
  /\ thresh' = get_n_features_thresh(type', time_window')[2]
  /\ \E fit \in FitWeights :
       model' = [algo |-> IF type' = "lstm" THEN "lstm"
                          ELSE IF type' = "gru" THEN "gru" ELSE model.algo,
                 nf |-> n_features', len |-> series_len,
                 gen |-> trained + 1, w |-> fit]
  /\ model_file' = SavedModelFile(type', time_window')
  /\ files' = [p \in DOMAIN files \cup {model_file'} |->
                IF p = model_file' THEN model' ELSE files[p]]
  /\ trained' = trained + 1
  /\ error' = ""
  /\ cell' = "train"
  /\ UNCHANGED <<testData, pc, it, threshold, datavars, results, rocvars,
                 writes, loaded>>

Train == \E t \in TrainTypes, w \in TrainWindows : TrainCell(t, w)


\* ------------------------------------------------------ the environments
ShippedFiles == [p \in AllPaths |-> PathModel(p)]

\* a model file whose network was built for all 18 features
Mismatched(p) == [PathModel(p) EXCEPT !.nf = 18]

\* the shipped model files, or those with one file of the grid absent or of
\* another input shape
FileWorlds ==
  {ShippedFiles}
    \cup {[ShippedFiles EXCEPT ![p] = NoModel] : p \in GridPaths}
    \cup {[ShippedFiles EXCEPT ![p] = Mismatched(p)] : p \in GridPaths}

Row(l, x) == [label |-> l, x |-> x]

\* testing files: both classes; one class, every sample scored low; one
\* class, scores on both sides of the thresholds; both classes, scores at
\* the thresholds
TestBatches ==
  { <<Row(0, 30), Row(1, 60)>>,
    <<Row(0, 30), Row(0, 30)>>,
    <<Row(0, 45), Row(0, 60)>>,
    <<Row(1, 45), Row(0, 60), Row(1, 30)>> }

NominalBatch == <<Row(0, 30), Row(1, 60)>>

RECURSIVE SeqsOf(_, _)
SeqsOf(S, n) ==
  IF n = 0 THEN {<<>>}
  ELSE {Append(s, e) : s \in SeqsOf(S, n - 1), e \in S}

\* every batch of 1..MaxN samples
AnyBatches == UNION {SeqsOf(Samples, n) : n \in 1..MaxN}

\* the notebook on the shipped files or with one of them bad, each testing
\* file one of TestBatches
InitGrid ==
  /\ FreshKernel
  /\ files \in FileWorlds
  /\ testData \in [TestFiles -> TestBatches]

\* the window whose testing file is drawn freely: the first one
BatchWindows == {time_windows[1]}

\* the notebook with the testing file of that window any batch of up to MaxN
\* samples, on the shipped files; or with one model file bad
InitBatch ==
  /\ FreshKernel
  /\ \/ /\ files = ShippedFiles
        /\ \E w \in BatchWindows, b \in AnyBatches :
             testData = [f \in TestFiles |->
                           IF f = TestDataFile(w) THEN b ELSE NominalBatch]
     \/ /\ files \in FileWorlds
        /\ testData = [f \in TestFiles |-> NominalBatch]

\* the notebook on the shipped files or with one of them bad, at most one
\* testing file other than the two-sample file with both classes
Init ==
  /\ FreshKernel
  /\ files \in FileWorlds
  /\ \E w \in GridWindows, b \in TestBatches :
       testData = [f \in TestFiles |->
                     IF f = TestDataFile(w) THEN b ELSE NominalBatch]

PredictSteps ==
  \/ PredictCell \/ ForDone \/ LoadModel \/ LoadModelFails \/ LoadData
  \/ Predict \/ PredictFails \/ Classify \/ Plot \/ PlotFails

AnalysisSteps ==
  \/ AnalysisCell \/ Analyze \/ AnalyzeFails \/ AnalysisDone

NextGrid == PredictSteps \/ AnalysisSteps

Next == PredictSteps \/ AnalysisSteps \/ Train

SpecGrid == InitGrid /\ [][NextGrid]_vars

SpecBatch == InitBatch /\ [][NextGrid]_vars

Spec == Init /\ [][Next]_vars


\* ================================================================ claims
GridKey(k) == ResultKey(Grid[k][2], Grid[k][1])
GridFile(k) == ModelFile(Grid[k][2], Grid[k][1])
Labels(rows) == [i \in DOMAIN rows |-> rows[i].label]
InIteration == cell = "predict" /\ pc \in {"load_data", "predict", "classify", "plot"}
TwoClasses(y) == Cardinality(Range(y)) = 2
Count(y, b, yv, bv) == Cardinality({k \in DOMAIN y : y[k] = yv /\ b[k] = bv})
HasLine(k) == \E l \in DOMAIN lines : lines[l].name = k

\* C1: once the loop has binarized a batch, every prediction is 0 or 1 and is
\* 1 exactly when the sample's probability is at least the threshold of the
\* current configuration, so a probability equal to the threshold gives 1.
C1_ThresholdInclusive ==
  pc = "plot" =>
    /\ threshold = get_n_features_thresh(type, time_window)[2]
    /\ DOMAIN bc = DOMAIN prob
    /\ \A i \in DOMAIN prob :
         /\ bc[i] \in {0, 1}
         /\ bc[i] = 1 <=> prob[i] >= threshold
         /\ bc[i] = 0 <=> prob[i] < threshold

C1_Witness ==
  /\ pc = "plot"
  /\ \E i \in DOMAIN prob : prob[i] = threshold /\ bc[i] = 1
  /\ \E i \in DOMAIN prob : prob[i] < threshold /\ bc[i] = 0

\* C2: for every non-empty batch the confusion matrix of (y_test, bc) is 2x2,
\* cell [i][j] counts the samples of truth i and prediction j, and the four
\* cells add up to the batch size.
C2_ConfusionMatrix2x2 ==
  pc = "plot" =>
    /\ Len(confmat) = 2
    /\ \A a \in 1..2 : Len(confmat[a]) = 2
    /\ \A i \in 0..1 : \A j \in 0..1 :
         Cell(confmat, i, j) = Count(y_test, bc, i, j)
    /\ Cell(confmat, 0, 0) + Cell(confmat, 0, 1) + Cell(confmat, 1, 0)
         + Cell(confmat, 1, 1) = Len(y_test)

\* C3: when the prediction loop has failed on a configuration, the results
\* mapping holds the entries of exactly the earlier configurations of the run
\* and none for the failing one.
C3_NoEntryForFailing ==
  (cell = "predict" /\ pc = "idle" /\ error # "") =>
    /\ Keys(results) = {GridKey(k) : k \in 1..(it - 1)}
    /\ GridKey(it) \notin Keys(results)

\* C4: after an analysis pass, a stored configuration whose truth has one
\* class has no AUROC value, and every stored configuration whose truth has
\* both classes has its AUROC and curve computed.
C4_UndefinedIsolated ==
  (cell = "roc" /\ pc = "idle") =>
    \A i \in DOMAIN results :
      IF TwoClasses(results[i].y_test)
      THEN \E l \in DOMAIN lines :
             /\ lines[l].name = results[i].key
             /\ lines[l].auc = roc_auc_score(results[i].y_test, results[i].bc)
      ELSE ~HasLine(results[i].key)

\* C5: after an analysis pass, two stored configurations holding the same
\* (truth, predictions) pair have the same outcome, wherever they stand in
\* the order of evaluation: both have the same metric or neither has one.
C5_OrderIndependent ==
  (cell = "roc" /\ pc = "idle") =>
    \A i, j \in DOMAIN results :
      (results[i].y_test = results[j].y_test /\ results[i].bc = results[j].bc)
        => (HasLine(results[i].key) <=> HasLine(results[j].key))

\* C6 as stated: while the loop is at configuration k+1, the metric of
\* configuration k has been computed already.
C6_MetricBeforeNext ==
  (cell = "predict" /\ pc # "idle" /\ it > 1) => HasLine(GridKey(it - 1))

\* C6 as amended: inside the prediction loop the configurations are taken one
\* after the other, each one's load, inference, classification and store done
\* before the next one's load; the model of a configuration stays bound to
\* model until the next load replaces it; the AUROC and curve of every
\* configuration are computed in the analysis cell only, never inside the loop.
C6_LoopOrder ==
  (cell = "predict" /\ pc # "idle") =>
    /\ writes = [k \in 1..(IF pc = "plot" THEN it ELSE it - 1) |-> GridKey(k)]
    /\ loaded = [k \in 1..(IF pc = "for" THEN it - 1 ELSE it) |-> GridFile(k)]
    /\ (pc = "for" /\ it > 1) => model = files[GridFile(it - 1)]
    /\ pc # "for" => model = files[GridFile(it)]

C6_Amended ==
  /\ []C6_LoopOrder
  /\ [][lines' # lines => (cell' = "roc" /\ pc \in {"idle", "roc"})]_vars

C6_Witness ==
  /\ cell = "predict" /\ pc = "for" /\ it = 3
  /\ model = files[GridFile(2)]
  /\ lines = <<>>

\* C7: the results mapping has one entry per key, the keys of the grid are
\* pairwise different, the entries present are exactly those the current run
\* of the prediction cell has stored, each stored once and under the key of
\* its own configuration, and a completed run leaves one entry per pair.
C7_OneEntryPerConfig ==
  /\ \A i, j \in DOMAIN Grid : i # j => GridKey(i) # GridKey(j)
  /\ Len(results) = Cardinality(Keys(results))
  /\ Len(writes) = Len(results)
  /\ Range(writes) = Keys(results)
  /\ \A i \in DOMAIN results :
       /\ results[i].key = GridKey(i)
       /\ results[i].y_test = Labels(testData[TestDataFile(Grid[i][1])])
  /\ (cell = "predict" /\ pc = "idle" /\ error = "") =>
       /\ Len(results) = Len(time_windows) * Len(rnn_types)
       /\ Keys(results) = {ResultKey(t, w) : t \in Range(rnn_types),
                                             w \in Range(time_windows)}

C7_Witness ==
  /\ cell = "predict" /\ pc = "idle" /\ error = ""
  /\ Len(results) = 6
  /\ trained = 1

\* C8: the training cell leaves at the path the prediction loop loads for its
\* pair a new model of the chosen type, changes no other model file and no
\* stored result; the prediction loop works with the model that is in the
\* file of its pair, so a run after training predicts with the new model.
C8_State ==
  /\ cell = "train" =>
       /\ model.algo = type /\ model.gen = trained
       /\ files[ModelFile(type, time_window)] = model
  /\ InIteration => model = files[ModelFile(type, time_window)]
  /\ (cell = "predict" /\ pc = "plot") =>
       results[Len(results)].bc =
         Binarize([i \in DOMAIN testData[TestDataFile(time_window)] |->
                     Score(files[ModelFile(type, time_window)],
                           testData[TestDataFile(time_window)][i].x)],
                  threshold)

C8_Step ==
  trained' # trained =>
    /\ results' = results
    /\ files'[ModelFile(type', time_window')] # files[ModelFile(type', time_window')]
    /\ \A p \in DOMAIN files :
         p # ModelFile(type', time_window') => files'[p] = files[p]
    /\ DOMAIN files' = DOMAIN files

C8_TrainedModelUsed == []C8_State /\ [][C8_Step]_vars

C8_Witness ==
  /\ cell = "predict" /\ pc = "plot"
  /\ trained = 1 /\ model.gen = 1
  /\ results[Len(results)].bc # Binarize(X_test.x, threshold)

\* C10: in every iteration the pair, the model file, the model, n_features,
\* the threshold, the test batch and the key of the stored entry are those of
\* the current grid item, whatever cells ran before; a model the training
\* cell has saved has the input shape of the test batch of its pair.
C10_InputsOfCurrentPair ==
  /\ InIteration =>
       /\ <<time_window, type>> = Grid[it]
       /\ model_file = ModelFile(type, time_window)
       /\ model = files[model_file]
       /\ n_features = get_n_features_thresh(type, time_window)[1]
       /\ threshold = get_n_features_thresh(type, time_window)[2]
  /\ (cell = "predict" /\ pc \in {"predict", "classify", "plot"}) =>
       /\ test_data_file = TestDataFile(time_window)
       /\ X_test.shape = <<series_len, n_features>>
       /\ y_test = Labels(testData[test_data_file])
       /\ model.gen > 0 => X_test.shape = <<model.len, model.nf>>
  /\ (cell = "predict" /\ pc = "plot") =>
       /\ results[Len(results)].key = ResultKey(type, time_window)
       /\ results[Len(results)].y_test = y_test
       /\ results[Len(results)].bc = Binarize(prob, threshold)
  /\ (cell = "predict" /\ error = "ValueError: shape") => model.gen = 0

C10_Witness ==
  /\ cell = "predict" /\ pc = "classify"
  /\ trained = 1 /\ model.gen = 1 /\ it = 4
  /\ X_test.shape = <<model.len, model.nf>>

\* C9: the results mapping holds 0/1 predictions only, so for a stored
\* configuration with both classes the curve of the analysis pass has no
\* point besides (0,0), (FP/(FP+TN), TP/(TP+FN)) and (1,1), and its AUROC is
\* (TP/(TP+FN) + TN/(TN+FP)) / 2, between 0 and 1, and 1 exactly when every
\* prediction equals the truth.
C9_SingleOperatingPoint ==
  /\ \A i \in DOMAIN results : Range(results[i].bc) \subseteq {0, 1}
  /\ cell = "roc" =>
       \A i \in DOMAIN lines :
         LET y == results[i].y_test
             b == results[i].bc
             TP == Count(y, b, 1, 1)
             FP == Count(y, b, 0, 1)
             TN == Count(y, b, 0, 0)
             FN == Count(y, b, 1, 0)
         IN /\ lines[i].name = results[i].key
            /\ TwoClasses(y)
            /\ Range(lines[i].roc) \subseteq
                 {[fp |-> 0, tp |-> 0], [fp |-> FP, tp |-> TP],
                  [fp |-> FP + TN, tp |-> TP + FN]}
            /\ lines[i].auc.den = 2 * (TP + FN) * (TN + FP)
            /\ lines[i].auc.num = TP * (TN + FP) + TN * (TP + FN)
            /\ 0 <= lines[i].auc.num /\ lines[i].auc.num <= lines[i].auc.den
            /\ lines[i].auc.num = lines[i].auc.den <=> b = y

C9_Witness ==
  /\ cell = "roc"
  /\ \E i \in DOMAIN lines :
       /\ results[i].y_test = <<0, 0, 1, 1>>
       /\ results[i].bc = <<0, 0, 1, 1>>
       /\ lines[i].auc.num = lines[i].auc.den

====
